---- MODULE Spec2Model ----
(***************************************************************************)
(* A model of fmailersdk.FmailerSdk (src/src/fmailersdk/sdk.py): the       *)
(* synchronous send_simple / send, the lazily created ThreadPoolExecutor   *)
(* behind the `executor` property, the task closures of                    *)
(* send_simple_async / send_async, and shutdown.                           *)
(*                                                                         *)
(* Caller threads run the methods statement by statement (the interpreter  *)
(* may switch threads between any two statements); pool workers run the    *)
(* task closure in the steps send -> post -> callback -> (except) -> set   *)
(* the future -> release the pool's idle semaphore.  A send is two steps:  *)
(* the request is made when the call enters requests.post, and the answer  *)
(* comes later, while other threads run.                                   *)
(***************************************************************************)
EXTENDS Naturals, Sequences, FiniteSets

VARIABLES
    fail_silently,  \* FmailerSdk.fail_silently, fixed by __init__
    max_workers,    \* FmailerSdk._max_workers, fixed by __init__
    executor,       \* FmailerSdk._executor: None or a pool id
    pools,          \* the ThreadPoolExecutors created so far, by id
    tasks,          \* the futures returned by executor.submit, by id
    callers,        \* each calling thread: its position in the method it runs,
                    \* its locals, and what the call gave once it has returned
    backend_calls,  \* number of requests.post calls made so far
    calls_left      \* how many more calls the calling threads will make

vars == <<fail_silently, max_workers, executor, pools, tasks, callers,
          backend_calls, calls_left>>

----------------------------------------------------------------------------
(* Bounds of the model *)

MaxWorkers == 2
MaxCalls == 2
MaxFairCalls == 2
MaxTasks == 2
MaxSeqCalls == 3
MaxPoolCalls == 3

Callers == {"c1", "c2"}
Kinds == {"simple", "tpl"}

----------------------------------------------------------------------------
(* Values *)

None == 0
NoErr == [cls |-> "None", msg |-> "", origin |-> "none", n |-> 0]

\* What requests.post can do: answer with a response, or raise a
\* requests.exceptions.RequestException (connection error, timeout, ...).
Responses ==
    { [transport |-> FALSE, ok |-> TRUE,  text |-> "OK"],
      [transport |-> FALSE, ok |-> FALSE, text |-> "err"],
      [transport |-> TRUE,  ok |-> FALSE, text |-> ""] }

\* FmailerSdkException(msg): the message is kept as given.
FmailerSdkException(msg, origin) ==
    [cls |-> "FmailerSdkException", msg |-> msg, origin |-> origin, n |-> 0]

\* FmailerSdkException.__str__
ExcStr(e) == "FmailerSdkException: " \o e.msg

\* str(x) of a value that already is a str is that str.
PyStr(text) == text

\* What a user callback does: return, raise an Exception, or raise a
\* BaseException that is no Exception (SystemExit, KeyboardInterrupt).
Raises == {"no", "Exception", "BaseException"}

\* The exception a user callback raises at its n-th invocation.
CallbackError(n) ==
    [cls |-> "CallbackError", msg |-> "callback", origin |-> "callback", n |-> n]
CallbackExit(n) ==
    [cls |-> "SystemExit", msg |-> "callback", origin |-> "callback", n |-> n]

\* The exception of the callback's n-th invocation, which raised.
CallbackRaised(raises, n) == IF raises = "Exception" THEN CallbackError(n) ELSE CallbackExit(n)

\* What the interpreter raises for None.submit / None.shutdown, and what
\* ThreadPoolExecutor.submit raises once the pool has been shut down.
AttributeError == [cls |-> "AttributeError", msg |-> "NoneType", origin |-> "interpreter", n |-> 0]
RuntimeError == [cls |-> "RuntimeError", msg |-> "cannot schedule new futures after shutdown",
                 origin |-> "pool", n |-> 0]

\* What ThreadPoolExecutor(max_workers=...) raises when the pool cannot be
\* made (ValueError for max_workers <= 0, MemoryError), and what submit
\* raises when the pool's worker thread cannot be started.
CreationError == [cls |-> "CreationError", msg |-> "", origin |-> "ThreadPoolExecutor", n |-> 0]
ThreadStartError == [cls |-> "RuntimeError", msg |-> "can't start new thread",
                     origin |-> "submit", n |-> 0]

\* What json.dumps raises: TypeError for a value it cannot serialise,
\* ValueError for a container that holds itself, RecursionError for one
\* nested too deep.
TypeError == [cls |-> "TypeError", msg |-> "not JSON serializable", origin |-> "json", n |-> 0]
ValueError == [cls |-> "ValueError", msg |-> "Circular reference detected",
               origin |-> "json", n |-> 0]
RecursionError == [cls |-> "RecursionError", msg |-> "maximum recursion depth exceeded",
                   origin |-> "json", n |-> 0]

\* What Future.result(timeout) raises when the future is not done in time.
TimeoutError == [cls |-> "TimeoutError", msg |-> "", origin |-> "future", n |-> 0]

\* What a call gives: a value, or an exception.
Returned(v) == [raised |-> FALSE, value |-> v, err |-> NoErr]
Raised(e) == [raised |-> TRUE, value |-> FALSE, err |-> e]

----------------------------------------------------------------------------
(* The synchronous sends *)

\* The detail of the error raised for a response that is not ok.
ApiErrorDetail(text) == text

\* except exceptions.RequestException: raise unless fail_silently.
TransportOutcome(fs) ==
    IF ~fs THEN Raised(FmailerSdkException("Fmailer API error", "transport"))
           ELSE Returned(TRUE)

\* The `params` argument of send / send_async (dict | None): a dict of JSON
\* values, one holding a value json.dumps cannot serialise (a datetime, a
\* set, a Decimal, bytes), one that holds itself, or one nested deeper than
\* the interpreter's recursion limit.  The other arguments are declared str.
Params == {"json", "datetime", "circular", "deep"}

\* json.dumps({**payload, 'auth': '***'}), evaluated for the debug message
\* whatever the log level is, before the post.
Serialisable(params) == params = "json"

\* What that json.dumps raises for params it does not serialise.
JsonError(params) ==
    IF params = "circular" THEN ValueError
    ELSE IF params = "deep" THEN RecursionError
    ELSE TypeError

\* res = requests.post(...) is followed by no second post, whatever the
\* first one gave: no loop surrounds it.  The idempotency_key only travels
\* to the post: nothing is looked up by it.
RetriesOnFailure(resp) == IF resp.transport THEN 1 ELSE 0
Retries(resp) == 0

\* send_simple: one post; a response that is not ok raises
\* FmailerSdkException(res.text), which `except RequestException` does not
\* catch; a RequestException is re-raised unless fail_silently; else True.
send_simple(resp, fs) ==
    IF resp.transport THEN TransportOutcome(fs)
    ELSE IF ~resp.ok THEN Raised(FmailerSdkException(ApiErrorDetail(resp.text), "api"))
    ELSE Returned(TRUE)

\* send: as send_simple, with FmailerSdkException(str(res.text)); `params`
\* is part of the payload, and what json.dumps raises leaves send before
\* the post: `except RequestException` does not catch it, fail_silently or
\* not.
send(params, resp, fs) ==
    IF ~Serialisable(params) THEN Raised(JsonError(params))
    ELSE IF resp.transport THEN TransportOutcome(fs)
    ELSE IF ~resp.ok THEN Raised(FmailerSdkException(ApiErrorDetail(PyStr(resp.text)), "api"))
    ELSE Returned(TRUE)

SendOf(kind, params, resp, fs) ==
    IF kind = "simple" THEN send_simple(resp, fs) ELSE send(params, resp, fs)

\* Whether the send gets as far as requests.post.
ReachesPost(kind, params) == kind = "simple" \/ Serialisable(params)

\* The params of a send that is inside requests.post: json.dumps has
\* accepted them.
PostedParams == CHOOSE params \in Params : Serialisable(params)

----------------------------------------------------------------------------
(* State after FmailerSdk(username, password, fail_silently, max_workers) *)

\* No post was made: there is no response.
NoResp == [transport |-> FALSE, ok |-> FALSE, text |-> "-"]

Idle == [pc |-> "idle", op |-> "none", cb |-> FALSE, wait |-> FALSE, ref |-> None,
         before |-> 0, out |-> Returned(FALSE), handle |-> None, resp |-> NoResp]

\* __init__ stores the configuration; the class attribute _executor = None
\* is left alone: no pool is made.
InitWithEagerPool(ncalls) ==
    /\ fail_silently \in BOOLEAN
    /\ max_workers \in 1..MaxWorkers
    /\ executor = 1
    /\ pools = <<[shutdown |-> {}, queue |-> <<>>, threads |-> 0, idle |-> 0,
                  releasing |-> 0]>>
    /\ tasks = <<>>
    /\ callers = [c \in Callers |-> Idle]
    /\ backend_calls = 0
    /\ calls_left = ncalls
InitWith(ncalls) ==
    /\ fail_silently \in BOOLEAN
    /\ max_workers \in 1..MaxWorkers
    /\ executor = None
    /\ pools = <<>>
    /\ tasks = <<>>
    /\ callers = [c \in Callers |-> Idle]
    /\ backend_calls = 0
    /\ calls_left = ncalls

Init == InitWith(MaxCalls)

TaskIds == 1..Len(tasks)
PoolIds == 1..Len(pools)

\* Future.done(): true once the worker has stored the outcome in the future.
doneAtReturn(t) == tasks[t].pc \in {"finish", "done"}
done(t) == tasks[t].pc = "done"

\* Future.result() of a completed future: the value, or the exception raised.
result(t) == tasks[t].outcome

\* Where a task is while its send is inside requests.post.
InPost == {"post_simple", "post_tpl"}

\* Where a task is while a worker executes its closure.
InClosure == {"send", "callback", "except", "finish"} \cup InPost

\* The tasks a pool's workers are executing.  A worker whose task raised
\* stores the exception in the future and takes the next work item.
RunningLeak(p) ==
    {t \in TaskIds : tasks[t].pool = p /\
        \/ tasks[t].pc \in InClosure
        \/ tasks[t].pc = "done" /\ tasks[t].outcome.raised}
Running(p) ==
    {t \in TaskIds : tasks[t].pool = p /\ tasks[t].pc \in InClosure}

\* The threads inside send_simple_async / send_async.
Submitting ==
    {c \in Callers : callers[c].op = "submit" /\
        callers[c].pc \in {"executor_create", "executor_return", "submit"}}

\* A call has returned or raised: the thread holds what it gave, until its
\* next call.
Returns(c, out) ==
    [Idle EXCEPT !.pc = "returned", !.op = callers[c].op, !.wait = callers[c].wait,
                 !.before = callers[c].before, !.out = out]

\* Thread c is in no call of the dispatcher: it can make its next one.
Ready(c) == callers[c].pc \in {"idle", "returned"}

----------------------------------------------------------------------------
(* The `executor` property and executor.submit(task), on a calling thread *)


\* A pool: the `wait` arguments shutdown has been called on it with (none:
\* the pool accepts work), its queue of work items, the number of worker
\* threads it has started, the value of its idle semaphore, and the number
\* of its workers that have stored a future's outcome and not yet released
\* the semaphore.  ThreadPoolExecutor(...) starts no thread.
NewPool == [shutdown |-> {}, queue |-> <<>>, threads |-> 0, idle |-> 0, releasing |-> 0]

\* The future submit makes is pending: nothing of the closure has run.
NewTaskInline(p, cb) ==
    [pool |-> p, cb |-> cb, pc |-> "queued", posts |-> 1, resp |-> NoResp,
     sent |-> Returned(TRUE), exc |-> NoErr, calls |-> <<>>, outcome |-> Returned(TRUE),
     orphan |-> FALSE]
NewTask(p, cb) ==
    [pool |-> p, cb |-> cb, pc |-> "queued", posts |-> 0, resp |-> NoResp,
     sent |-> Returned(FALSE), exc |-> NoErr, calls |-> <<>>, outcome |-> Returned(FALSE),
     orphan |-> FALSE]

\* `if self._executor is None`
ExecutorIsNone(e) == e = None

\* send_simple_async / send_async up to the test in the executor property.
send_async_begin(c, cb) ==
    /\ Ready(c)
    /\ calls_left > 0
    /\ Len(tasks) + Cardinality(Submitting) < MaxTasks
    /\ calls_left' = calls_left - 1
    /\ callers' = [callers EXCEPT ![c] =
            [Idle EXCEPT !.pc = IF ExecutorIsNone(executor) THEN "executor_create"
                                                           ELSE "executor_return",
                         !.op = "submit", !.cb = cb]]
    /\ UNCHANGED <<fail_silently, max_workers, executor, pools, tasks, backend_calls>>

\* self._executor = ThreadPoolExecutor(max_workers=self._max_workers)
executor_create(c) ==
    /\ callers[c].pc = "executor_create"
    /\ pools' = Append(pools, NewPool)
    /\ executor' = Len(pools) + 1
    /\ callers' = [callers EXCEPT ![c].pc = "executor_return"]
    /\ UNCHANGED <<fail_silently, max_workers, tasks, backend_calls, calls_left>>

\* ThreadPoolExecutor(...) raises: the assignment to self._executor does not
\* happen and no pool object is left behind.
PoolsAfterFailedCreateHalfMade(ps) ==
    Append(ps, [shutdown |-> {}, queue |-> <<>>, threads |-> 0, idle |-> 0, releasing |-> 0])
PoolsAfterFailedCreate(ps) == ps

\* self._executor = ThreadPoolExecutor(...) raising: the exception leaves the
\* property, and send_simple_async / send_async, at once.
executor_create_fail(c) ==
    /\ callers[c].pc = "executor_create"
    /\ pools' = PoolsAfterFailedCreate(pools)
    /\ callers' = [callers EXCEPT ![c] = Returns(c, Raised(CreationError))]
    /\ UNCHANGED <<fail_silently, max_workers, executor, tasks, backend_calls, calls_left>>

\* `executor` is a public property: a thread that reads sdk.executor goes
\* through the same test, creation and return as a submission, and gets the
\* pool (or None) without submitting anything.
executor_read(c) ==
    /\ Ready(c)
    /\ calls_left > 0
    /\ calls_left' = calls_left - 1
    /\ callers' = [callers EXCEPT ![c] =
            [Idle EXCEPT !.pc = IF ExecutorIsNone(executor) THEN "executor_create"
                                                           ELSE "executor_return",
                         !.op = "executor"]]
    /\ UNCHANGED <<fail_silently, max_workers, executor, pools, tasks, backend_calls>>

\* return self._executor: to .submit(task) inside send_simple_async /
\* send_async, or to the thread that read the property.
executor_return(c) ==
    /\ callers[c].pc = "executor_return"
    /\ callers' = [callers EXCEPT ![c] =
            IF callers[c].op = "submit"
                THEN [@ EXCEPT !.pc = "submit", !.ref = executor]
                ELSE Returns(c, Returned(executor # None))]
    /\ UNCHANGED <<fail_silently, max_workers, executor, pools, tasks, backend_calls, calls_left>>

\* What .submit(task) gives on the object the property returned.
SubmitOutcome(ref) ==
    IF ref = None THEN Raised(AttributeError)
    ELSE IF pools[ref].shutdown # {} THEN Raised(RuntimeError)
    ELSE Returned(TRUE)

\* submit puts one work item for the future at the end of the pool's queue.
EnqueueTwice(queue, t) == Append(Append(queue, t), t)
Enqueue(queue, t) == Append(queue, t)

\* The worker threads the pool has started.
Threads(p) == pools[p].threads

\* _idle_semaphore.acquire(timeout=0): a worker has released the semaphore
\* since the last submit that took it.
IdleWorker(p) == pools[p].idle > 0

\* _adjust_thread_count starts a thread when the semaphore gives nothing and
\* the pool has fewer than max_workers threads.
StartsThread(p) == ~IdleWorker(p) /\ Threads(p) < max_workers

\* _adjust_thread_count, after the work item has been queued: take the idle
\* semaphore, or else start a thread, or else nothing.
AdjustThreadCount(pool, starts) ==
    [pool EXCEPT !.idle = IF @ > 0 THEN @ - 1 ELSE @,
                 !.threads = IF starts THEN @ + 1 ELSE @]

\* self.executor.submit(task): the pool makes the future, queues the work
\* item and adjusts its thread count, under its lock, or raises.  The pool's
\* workers run while submit is still on its way back to the caller.
submit(c) ==
    /\ callers[c].pc = "submit"
    /\ LET ref == callers[c].ref
           out == SubmitOutcome(ref)
           t == Len(tasks) + 1
       IN IF out.raised
            THEN /\ UNCHANGED <<pools, tasks>>
                 /\ callers' = [callers EXCEPT ![c] = Returns(c, out)]
            ELSE /\ tasks' = Append(tasks, NewTask(ref, callers[c].cb))
                 /\ pools' = [pools EXCEPT ![ref] =
                        AdjustThreadCount([@ EXCEPT !.queue = Enqueue(@, t)],
                                          StartsThread(ref))]
                 /\ callers' = [callers EXCEPT ![c].pc = "submit_return", ![c].handle = t]
    /\ UNCHANGED <<fail_silently, max_workers, executor, backend_calls, calls_left>>

\* executor.submit(task) starting a thread that fails to start: submit has
\* already queued the work item when it tries to start the thread, so the
\* item stays in the queue of the pool, which stays assigned; the exception
\* leaves submit and no future reaches the caller.
submit_thread_fail(c) ==
    /\ callers[c].pc = "submit"
    /\ callers[c].ref # None
    /\ pools[callers[c].ref].shutdown = {}
    /\ StartsThread(callers[c].ref)
    /\ LET ref == callers[c].ref
           t == Len(tasks) + 1
       IN /\ tasks' = Append(tasks, [NewTask(ref, callers[c].cb) EXCEPT !.orphan = TRUE])
          /\ pools' = [pools EXCEPT ![ref].queue = Enqueue(@, t)]
          /\ callers' = [callers EXCEPT ![c] = Returns(c, Raised(ThreadStartError))]
    /\ UNCHANGED <<fail_silently, max_workers, executor, backend_calls, calls_left>>

\* return <the future>: send_simple_async / send_async hand the future to
\* the caller.
submit_return(c) ==
    /\ callers[c].pc = "submit_return"
    /\ callers' = [callers EXCEPT ![c] =
            [Returns(c, Returned(TRUE)) EXCEPT !.handle = callers[c].handle]]
    /\ UNCHANGED <<fail_silently, max_workers, executor, pools, tasks, backend_calls, calls_left>>

----------------------------------------------------------------------------
(* shutdown(wait), on a calling thread *)

\* ThreadPoolExecutor.shutdown(wait) leaves the queued work items in place
\* (cancel_futures is not passed).
QueueAfterShutdownCancel(queue, wait) == IF wait THEN queue ELSE <<>>
QueueAfterShutdown(queue, wait) == queue

\* `if self._executor is not None`; a dispatcher without a pool returns.
shutdown_begin(c, wait) ==
    /\ Ready(c)
    /\ calls_left > 0
    /\ calls_left' = calls_left - 1
    /\ callers' = [callers EXCEPT ![c] =
            [Idle EXCEPT !.pc = IF ExecutorIsNone(executor) THEN "returned" ELSE "shutdown_call",
                         !.op = "shutdown", !.wait = wait, !.before = Len(tasks)]]
    /\ UNCHANGED <<fail_silently, max_workers, executor, pools, tasks, backend_calls>>

\* __del__: self.shutdown(wait=False).
DelWaitBlocking == TRUE
DelWait == FALSE

\* __del__ runs when the last reference to the dispatcher is dropped (or is
\* called by hand): it enters shutdown with wait=False, and the thread makes
\* no call on the dispatcher afterwards.
del_begin(c) ==
    /\ Ready(c)
    /\ calls_left > 0
    /\ calls_left' = 0
    /\ callers' = [callers EXCEPT ![c] =
            [Idle EXCEPT !.pc = IF ExecutorIsNone(executor) THEN "returned" ELSE "shutdown_call",
                         !.op = "__del__", !.wait = DelWait, !.before = Len(tasks)]]
    /\ UNCHANGED <<fail_silently, max_workers, executor, pools, tasks, backend_calls>>

\* self._executor.shutdown(wait=wait): the attribute is read again.
shutdown_call(c) ==
    /\ callers[c].pc = "shutdown_call"
    /\ IF executor = None
         THEN /\ callers' = [callers EXCEPT ![c] = Returns(c, Raised(AttributeError))]
              /\ UNCHANGED pools
         ELSE /\ pools' = [pools EXCEPT
                    ![executor].shutdown = @ \cup {callers[c].wait},
                    ![executor].queue = QueueAfterShutdown(@, callers[c].wait)]
              /\ callers' = [callers EXCEPT ![c].ref = executor,
                                            ![c].pc = IF callers[c].wait THEN "shutdown_wait"
                                                                        ELSE "shutdown_clear"]
    /\ UNCHANGED <<fail_silently, max_workers, executor, tasks, backend_calls, calls_left>>

\* The workers of a pool that are not waiting on its queue: they execute a
\* closure, or have stored its outcome and not yet released the semaphore.
Busy(p) == Cardinality(Running(p)) + pools[p].releasing

\* The pool's worker threads have all exited: after shutdown a worker exits
\* when it finds the queue empty, and a pool without threads has none to
\* exit, whatever its queue holds.
PoolDrained(p) == Threads(p) = 0 \/ (pools[p].queue = <<>> /\ Busy(p) = 0)

\* shutdown(wait=True) joins the pool's worker threads.
shutdown_wait(c) ==
    /\ callers[c].pc = "shutdown_wait"
    /\ PoolDrained(callers[c].ref)
    /\ callers' = [callers EXCEPT ![c].pc = "shutdown_clear"]
    /\ UNCHANGED <<fail_silently, max_workers, executor, pools, tasks, backend_calls, calls_left>>

\* self._executor = None
ExecutorAfterShutdownKept(e) == e
ExecutorAfterShutdown(e) == None

\* self._executor = None, and shutdown returns.
shutdown_clear(c) ==
    /\ callers[c].pc = "shutdown_clear"
    /\ executor' = ExecutorAfterShutdown(executor)
    /\ callers' = [callers EXCEPT ![c] = Returns(c, Returned(FALSE))]
    /\ UNCHANGED <<fail_silently, max_workers, pools, tasks, backend_calls, calls_left>>

----------------------------------------------------------------------------
(* The synchronous send_simple / send, on a calling thread *)

SyncName(kind) == IF kind = "simple" THEN "send_simple" ELSE "send"

KindOf(op) == IF op = "send_simple" THEN "simple" ELSE "tpl"

\* send_simple / send up to requests.post: the request is made and the
\* thread waits for the answer; or json.dumps raises and the call is over
\* without a post.
send_sync(c, kind, params) ==
    /\ Ready(c)
    /\ calls_left > 0
    /\ calls_left' = calls_left - 1
    /\ IF ReachesPost(kind, params)
         THEN /\ backend_calls' = backend_calls + 1
              /\ callers' = [callers EXCEPT ![c] =
                      [Idle EXCEPT !.pc = "post", !.op = SyncName(kind)]]
         ELSE /\ UNCHANGED backend_calls
              /\ callers' = [callers EXCEPT ![c] =
                      [Idle EXCEPT !.pc = "returned", !.op = SyncName(kind),
                                   !.out = SendOf(kind, params, NoResp, fail_silently)]]
    /\ UNCHANGED <<fail_silently, max_workers, executor, pools, tasks>>

\* requests.post returns a response or raises a RequestException, and
\* send_simple / send returns or raises.
send_sync_answer(c, resp) ==
    /\ callers[c].pc = "post"
    /\ backend_calls' = backend_calls + Retries(resp)
    /\ callers' = [callers EXCEPT ![c] =
            [Idle EXCEPT !.pc = "returned", !.op = callers[c].op, !.resp = resp,
                         !.out = SendOf(KindOf(callers[c].op), PostedParams, resp,
                                        fail_silently)]]
    /\ UNCHANGED <<fail_silently, max_workers, executor, pools, tasks, calls_left>>

----------------------------------------------------------------------------
(* future.result() / future.result(timeout), on a calling thread *)

\* A wait that times out stops waiting; the pool's queue is as it was.
QueueAfterTimeoutCancel(queue, t) == SelectSeq(queue, LAMBDA u : u # t)
QueueAfterTimeout(queue, t) == queue

\* result() blocks until the future is done, then returns the value the
\* closure returned or raises what it raised.  Any thread may hold handle t.
result_get(c, t) ==
    /\ Ready(c)
    /\ calls_left > 0
    /\ t \in TaskIds
    /\ done(t)
    /\ calls_left' = calls_left - 1
    /\ callers' = [callers EXCEPT ![c] =
            [Idle EXCEPT !.pc = "returned", !.op = "result", !.handle = t, !.out = result(t)]]
    /\ UNCHANGED <<fail_silently, max_workers, executor, pools, tasks, backend_calls>>

\* result(timeout): the timeout elapses while the future is not done.
result_timeout(c, t) ==
    /\ Ready(c)
    /\ calls_left > 0
    /\ t \in TaskIds
    /\ ~done(t)
    /\ calls_left' = calls_left - 1
    /\ pools' = [p \in PoolIds |-> [pools[p] EXCEPT !.queue = QueueAfterTimeout(@, t)]]
    /\ callers' = [callers EXCEPT ![c] =
            [Idle EXCEPT !.pc = "returned", !.op = "result", !.handle = t,
                         !.out = Raised(TimeoutError)]]
    /\ UNCHANGED <<fail_silently, max_workers, executor, tasks, backend_calls>>

----------------------------------------------------------------------------
(* The task closure of send_simple_async / send_async, on a pool worker *)

\* The pool's work queue is first in, first out: a worker gets the item that
\* has waited longest.
TakeFromNewest(queue) ==
    [item |-> queue[Len(queue)], rest |-> SubSeq(queue, 1, Len(queue) - 1)]
TakeFrom(queue) == [item |-> Head(queue), rest |-> Tail(queue)]

\* A worker thread that runs no task takes the oldest work item of its
\* pool's queue; each thread runs one task at a time.
worker_start(p) ==
    /\ p \in PoolIds
    /\ pools[p].queue # <<>>
    /\ Busy(p) < Threads(p)
    /\ tasks' = [tasks EXCEPT ![TakeFrom(pools[p].queue).item].pc = "send"]
    /\ pools' = [pools EXCEPT ![p].queue = TakeFrom(@).rest]
    /\ UNCHANGED <<fail_silently, max_workers, executor, callers, backend_calls, calls_left>>

\* Where the closure goes once the send has returned (`if callback:`) or
\* raised (`except Exception as e: if callback:`); without a callback it
\* returns the result, or re-raises, at once.
AfterSendSkip(cb) == "finish"
AfterSend(cb) == IF cb THEN "callback" ELSE "finish"
AfterRaise(cb) == IF cb THEN "except" ELSE "finish"

PostPc(kind) == IF kind = "simple" THEN "post_simple" ELSE "post_tpl"
PostKind(pc) == IF pc = "post_simple" THEN "simple" ELSE "tpl"

\* What the closure does with what its send gave.
AfterSent(task, resp, out) ==
    [task EXCEPT !.resp = resp,
                 !.pc = IF out.raised THEN AfterRaise(task.cb) ELSE AfterSend(task.cb),
                 !.sent = out,
                 !.exc = out.err,
                 !.outcome = out]

\* result = self.send_simple(...) in the closure of send_simple_async,
\* result = self.send(...) in the closure of send_async, up to
\* requests.post: the request is made and the worker waits for the answer;
\* or json.dumps raises and the send is over without a post.  The two
\* closures differ in nothing else, so which of the two methods built the
\* task is drawn here, where it first matters.
task_send(t, kind, params) ==
    /\ t \in TaskIds
    /\ tasks[t].pc = "send"
    /\ IF ReachesPost(kind, params)
         THEN /\ tasks' = [tasks EXCEPT ![t].posts = @ + 1, ![t].pc = PostPc(kind)]
              /\ backend_calls' = backend_calls + 1
         ELSE /\ tasks' = [tasks EXCEPT ![t] =
                      AfterSent(@, NoResp, SendOf(kind, params, NoResp, fail_silently))]
              /\ UNCHANGED backend_calls
    /\ UNCHANGED <<fail_silently, max_workers, executor, pools, callers, calls_left>>

\* requests.post returns a response or raises a RequestException, and the
\* send inside the closure returns or raises.
task_answer(t, resp) ==
    /\ t \in TaskIds
    /\ tasks[t].pc \in InPost
    /\ tasks' = [tasks EXCEPT ![t] =
            AfterSent([@ EXCEPT !.posts = @ + Retries(resp)], resp,
                      SendOf(PostKind(tasks[t].pc), PostedParams, resp, fail_silently))]
    /\ backend_calls' = backend_calls + Retries(resp)
    /\ UNCHANGED <<fail_silently, max_workers, executor, pools, callers, calls_left>>

\* One invocation of the user's callback: its arguments, and whether it
\* raised.
Invocation(success, err, raises) == [success |-> success, err |-> err, raises |-> raises]

\* callback(result, None); return result.  The callback runs inside the try
\* block: an Exception it raises is caught by `except Exception as e`; a
\* BaseException that is no Exception leaves the closure at once.
task_callback(t, raises) ==
    /\ t \in TaskIds
    /\ tasks[t].pc = "callback"
    /\ LET n == Len(tasks[t].calls) + 1
       IN tasks' = [tasks EXCEPT ![t] =
              [@ EXCEPT !.calls = Append(@, Invocation(tasks[t].sent.value, NoErr, raises)),
                        !.pc = IF raises = "Exception" THEN "except" ELSE "finish",
                        !.exc = IF raises = "Exception" THEN CallbackError(n) ELSE @,
                        !.outcome = IF raises = "BaseException"
                                        THEN Raised(CallbackExit(n)) ELSE @]]
    /\ UNCHANGED <<fail_silently, max_workers, executor, pools, callers, backend_calls, calls_left>>

\* except Exception as e: callback(False, e); raise.  What the callback
\* raises here leaves the closure in place of e.
task_except(t, raises) ==
    /\ t \in TaskIds
    /\ tasks[t].pc = "except"
    /\ LET n == Len(tasks[t].calls) + 1
           e == tasks[t].exc
       IN tasks' = [tasks EXCEPT ![t] =
              [@ EXCEPT !.calls = Append(@, Invocation(FALSE, e, raises)),
                        !.pc = "finish",
                        !.outcome = IF raises = "no" THEN Raised(e)
                                    ELSE Raised(CallbackRaised(raises, n))]]
    /\ UNCHANGED <<fail_silently, max_workers, executor, pools, callers, backend_calls, calls_left>>

\* The worker stores what the closure returned or raised in the future:
\* from here on done() is true and result() returns or raises.  The worker
\* has not yet told the pool that it is idle.
task_finish(t) ==
    /\ t \in TaskIds
    /\ tasks[t].pc = "finish"
    /\ tasks' = [tasks EXCEPT ![t].pc = "done"]
    /\ pools' = [pools EXCEPT ![tasks[t].pool].releasing = @ + 1]
    /\ UNCHANGED <<fail_silently, max_workers, executor, callers, backend_calls, calls_left>>

\* executor._idle_semaphore.release(), after work_item.run() has returned:
\* the worker goes back to the queue.
worker_release(p) ==
    /\ p \in PoolIds
    /\ pools[p].releasing > 0
    /\ pools' = [pools EXCEPT ![p].releasing = @ - 1, ![p].idle = @ + 1]
    /\ UNCHANGED <<fail_silently, max_workers, executor, tasks, callers, backend_calls,
                   calls_left>>

----------------------------------------------------------------------------
(* Specifications *)

\* The steps of a calling thread whose `params` arguments come from ps.
CallerStepOn(c, ps) ==
    \/ \E cb \in BOOLEAN : send_async_begin(c, cb)
    \/ executor_read(c)
    \/ executor_create(c)
    \/ executor_return(c)
    \/ submit(c)
    \/ submit_return(c)
    \/ \E wait \in BOOLEAN : shutdown_begin(c, wait)
    \/ shutdown_call(c)
    \/ shutdown_wait(c)
    \/ shutdown_clear(c)
    \/ \E kind \in Kinds, params \in ps : send_sync(c, kind, params)
    \/ \E resp \in Responses : send_sync_answer(c, resp)
    \/ \E t \in 1..MaxTasks : result_get(c, t)
    \/ \E t \in 1..MaxTasks : result_timeout(c, t)

CallerStep(c) == CallerStepOn(c, Params)

\* The steps of a task whose `params` argument comes from ps and whose
\* callback does one of rs.
TaskStepOn(t, ps, rs) ==
    \/ \E kind \in Kinds, params \in ps : task_send(t, kind, params)
    \/ \E resp \in Responses : task_answer(t, resp)
    \/ \E raises \in rs : task_callback(t, raises)
    \/ \E raises \in rs : task_except(t, raises)
    \/ task_finish(t)

TaskStep(t) == TaskStepOn(t, Params, Raises)

Next ==
    \/ \E c \in Callers : CallerStep(c)
    \/ \E p \in 1..MaxTasks : worker_start(p)
    \/ \E p \in 1..MaxTasks : worker_release(p)
    \/ \E t \in 1..MaxTasks : TaskStep(t)

Spec == Init /\ [][Next]_vars

\* The behaviours of at most MaxFairCalls calls, with params json.dumps
\* accepts or refuses with TypeError.
FairInit == InitWith(MaxFairCalls)

FairParams == {"json", "datetime"}

FairNext ==
    \/ \E c \in Callers : CallerStepOn(c, FairParams)
    \/ \E p \in 1..MaxTasks : worker_start(p)
    \/ \E p \in 1..MaxTasks : worker_release(p)
    \/ \E t \in 1..MaxTasks : TaskStepOn(t, FairParams, Raises)

\* The operating system schedules every worker thread, the backend answers
\* every request and callbacks return or raise.
FairSpec ==
    /\ FairInit /\ [][FairNext]_vars
    /\ \A p \in 1..MaxTasks : WF_vars(worker_start(p))
    /\ \A p \in 1..MaxTasks : WF_vars(worker_release(p))
    /\ \A t \in 1..MaxTasks : WF_vars(TaskStepOn(t, FairParams, Raises))

\* One calling thread: its calls follow one another, at most MaxSeqCalls of
\* them, while the pool workers run beside it.
SeqInit == InitWith(MaxSeqCalls)

SeqNext ==
    \/ CallerStepOn("c1", FairParams)
    \/ del_begin("c1")
    \/ \E p \in 1..MaxTasks : worker_start(p)
    \/ \E p \in 1..MaxTasks : worker_release(p)
    \/ \E t \in 1..MaxTasks : TaskStepOn(t, FairParams, Raises)

SeqSpec ==
    /\ SeqInit /\ [][SeqNext]_vars
    /\ \A p \in 1..MaxTasks : WF_vars(worker_start(p))
    /\ \A p \in 1..MaxTasks : WF_vars(worker_release(p))
    /\ \A t \in 1..MaxTasks : WF_vars(TaskStepOn(t, FairParams, Raises))

\* The life of the pool under more calls: two threads make at most
\* MaxPoolCalls calls, with params json.dumps accepts and callbacks that
\* return.
PlainParams == {"json"}
PlainRaises == {"no"}

PoolInit == InitWith(MaxPoolCalls)

PoolNext ==
    \/ \E c \in Callers : CallerStepOn(c, PlainParams)
    \/ \E p \in 1..MaxTasks : worker_start(p)
    \/ \E p \in 1..MaxTasks : worker_release(p)
    \/ \E t \in 1..MaxTasks : TaskStepOn(t, PlainParams, PlainRaises)

PoolSpec == PoolInit /\ [][PoolNext]_vars

\* The behaviours in which, besides, making the pool or starting a worker
\* thread can fail.
FaultNext ==
    \/ Next
    \/ \E c \in Callers : executor_create_fail(c)
    \/ \E c \in Callers : submit_thread_fail(c)

FaultSpec == FairInit /\ [][FaultNext]_vars

----------------------------------------------------------------------------
(* Observations the claims are stated on *)

\* Thread c holds the result of a call to `op` that has just returned or raised.
HasReturned(c, op) == callers[c].pc = "returned" /\ callers[c].op = op

SyncOps == {"send_simple", "send"}

\* The backend answered with a success status / a non-success status; the
\* transport raised.
Success(resp) == ~resp.transport /\ resp.ok
NonSuccess(resp) == resp # NoResp /\ ~resp.transport /\ ~resp.ok
TransportFailure(resp) == resp.transport

\* The arguments the callback got at its i-th invocation.
Args(t, i) == <<tasks[t].calls[i].success, tasks[t].calls[i].err>>

----------------------------------------------------------------------------
(* C1 *)

\* C1: as long as the threads have made no call but submissions, concurrent
\* first submissions create exactly one pool and all their tasks are on
\* that pool.
C1_OnePoolUnderConcurrentFirstUse ==
    (\A c \in Callers : callers[c].op \in {"none", "submit"}) =>
        /\ Len(pools) <= 1
        /\ \A t \in TaskIds : tasks[t].pool = 1

(* C2 *)

\* C2: when shutdown(wait=True) returns, every task submitted before the
\* call has completed.
C2_ShutdownWaitsForAllSubmitted ==
    \A c \in Callers :
        (HasReturned(c, "shutdown") /\ callers[c].wait /\ ~callers[c].out.raised) =>
            \A t \in 1..callers[c].before : done(t)

(* C3 *)

\* Task t was queued or in flight on a pool when shutdown(wait=False) was
\* called on that pool.
LeftBehind(t) ==
    t \in TaskIds /\ ~done(t) /\ FALSE \in pools[tasks[t].pool].shutdown

\* The send left with what json.dumps raised.
JsonRefusal(out) == out.raised /\ out.err.origin = "json"

\* Task t has completed after running its send: it has posted once, unless
\* json.dumps refused its params.
Completed(t) ==
    /\ t \in TaskIds /\ done(t)
    /\ tasks[t].posts = IF JsonRefusal(tasks[t].sent) THEN 0 ELSE 1

\* The step in which thread c calls shutdown(wait) on the pool.
ShutdownCallStep(c) == callers[c].pc = "shutdown_call" /\ callers'[c].pc # "shutdown_call"

\* C3: every task queued or in flight when shutdown(wait=False) is called
\* still runs its send and its handle eventually reaches done() == true:
\* the call takes nothing out of a pool's queue and changes no task, and
\* from some moment on every task of a pool that shutdown(wait=False) was
\* called on has completed, and none is left behind.
C3_NoWaitShutdownCancelsNothing ==
    /\ [][\A c \in Callers : ShutdownCallStep(c) =>
            /\ tasks' = tasks
            /\ \A p \in PoolIds : pools'[p].queue = pools[p].queue]_vars
    /\ <>[](\A t \in TaskIds :
            FALSE \in pools[tasks[t].pool].shutdown => (Completed(t) /\ ~LeftBehind(t)))

\* shutdown(wait=False) has returned while a task submitted before it is
\* still queued or in flight.
C3_Witness ==
    \E c \in Callers :
        /\ HasReturned(c, "shutdown") /\ ~callers[c].wait /\ ~callers[c].out.raised
        /\ \E t \in 1..callers[c].before : LeftBehind(t)

(* C4 *)

\* C4: a completed task with a callback has invoked it exactly once, with
\* (True, None) if its send succeeded and (False, error) if it failed; a
\* task without a callback has invoked none.
C4_CallbackExactlyOnce ==
    \A t \in TaskIds : done(t) =>
        IF tasks[t].cb
          THEN /\ Len(tasks[t].calls) = 1
               /\ Args(t, 1) = <<~tasks[t].sent.raised, tasks[t].sent.err>>
          ELSE tasks[t].calls = <<>>

(* C5 *)

\* C5: a handle whose task has a callback is never done before the callback
\* has been invoked.
C5_CallbackBeforeDone ==
    \A t \in TaskIds : (tasks[t].cb /\ done(t)) => Len(tasks[t].calls) >= 1

\* A task with a callback has completed.
C5_Witness ==
    \E t \in TaskIds : tasks[t].cb /\ done(t) /\ Len(tasks[t].calls) >= 1

(* C6 *)

\* C6: with fail_silently false, a transport error makes the synchronous
\* send raise an FmailerSdkException, and makes result() raise the very
\* error the callback got as (False, error).
C6_TransportErrorRaised ==
    ~fail_silently =>
        /\ \A c \in Callers :
              (callers[c].pc = "returned" /\ callers[c].op \in SyncOps
                 /\ TransportFailure(callers[c].resp)) =>
                  callers[c].out.raised /\ callers[c].out.err.cls = "FmailerSdkException"
        /\ \A t \in TaskIds :
              (done(t) /\ TransportFailure(tasks[t].resp)) =>
                  /\ result(t).raised
                  /\ result(t).err.cls = "FmailerSdkException"
                  /\ tasks[t].cb =>
                        /\ Len(tasks[t].calls) >= 1
                        /\ Args(t, 1) = <<FALSE, result(t).err>>

(* C7 *)

\* C7: with fail_silently true, a transport failure gives True from the
\* synchronous send and from result(), records no error, and a callback
\* gets (True, None).
C7_FailSilentlyTransport ==
    fail_silently =>
        /\ \A c \in Callers :
              (callers[c].pc = "returned" /\ callers[c].op \in SyncOps
                 /\ TransportFailure(callers[c].resp)) =>
                  callers[c].out = Returned(TRUE)
        /\ \A t \in TaskIds :
              (done(t) /\ TransportFailure(tasks[t].resp)) =>
                  /\ result(t) = Returned(TRUE)
                  /\ tasks[t].cb => \A i \in 1..Len(tasks[t].calls) : Args(t, i) = <<TRUE, NoErr>>

(* C8 *)

\* C8: with fail_silently true, a synchronous send answered with a
\* non-success status does not raise and returns True.
C8_FailSilentlyApiError ==
    fail_silently =>
        \A c \in Callers :
            (callers[c].pc = "returned" /\ callers[c].op \in SyncOps
               /\ NonSuccess(callers[c].resp)) =>
                callers[c].out = Returned(TRUE)

(* C9 *)

\* C9: a non-success status makes the synchronous send raise, and the
\* handle record, an FmailerSdkException whose detail is the response body
\* text; a callback gets (False, that error).
C9_ApiErrorDetail ==
    /\ \A c \in Callers :
          (callers[c].pc = "returned" /\ callers[c].op \in SyncOps
             /\ NonSuccess(callers[c].resp)) =>
              /\ callers[c].out.raised
              /\ callers[c].out.err.cls = "FmailerSdkException"
              /\ callers[c].out.err.msg = callers[c].resp.text
    /\ \A t \in TaskIds :
          (done(t) /\ NonSuccess(tasks[t].resp)) =>
              /\ result(t).raised
              /\ result(t).err.cls = "FmailerSdkException"
              /\ result(t).err.msg = tasks[t].resp.text
              /\ tasks[t].cb =>
                    /\ Len(tasks[t].calls) >= 1
                    /\ Args(t, 1) = <<FALSE, result(t).err>>

(* C10 *)

\* C10: a success status makes send_simple and send return True and the
\* async handles resolve to True with no recorded error.
C10_SuccessResolvesTrue ==
    /\ \A c \in Callers :
          (callers[c].pc = "returned" /\ callers[c].op \in SyncOps
             /\ Success(callers[c].resp)) =>
              callers[c].out = Returned(TRUE)
    /\ \A t \in TaskIds :
          (done(t) /\ Success(tasks[t].resp)) => result(t) = Returned(TRUE)

(* C11 *)

\* A step in which thread c returns from send_simple / send, or moves
\* within shutdown.
SyncOrShutdownStep(c) ==
    /\ callers'[c] # callers[c]
    /\ callers'[c].op \in SyncOps \cup {"shutdown"}

\* A step in which thread c runs the assignment in the executor property,
\* inside send_simple_async / send_async.
LazyCreateStep(c) ==
    /\ callers[c].op = "submit" /\ callers[c].pc = "executor_create"
    /\ callers'[c].pc = "executor_return"

\* A step in which a thread runs the assignment in the executor property,
\* in a submission or in a read of the property.
PropertyCreateStep(c) ==
    callers[c].pc = "executor_create" /\ callers'[c].pc = "executor_return"

\* send_simple, send and a shutdown that finds no pool never create one.
NoPoolFromSyncOrShutdown ==
    \A c \in Callers : SyncOrShutdownStep(c) =>
        /\ Len(pools') = Len(pools)
        /\ executor = None => executor' = None

\* A pool is made, or the dispatcher comes to refer to one.
PoolAppears == Len(pools') > Len(pools) \/ (executor = None /\ executor' # None)

\* C11 (as stated): a constructed dispatcher has no pool; send_simple, send
\* and a shutdown that finds no pool never create one; a pool is created
\* only inside send_simple_async / send_async, so the dispatcher has none
\* until the first submission; and once a task has been submitted the
\* dispatcher refers to a pool, as long as shutdown has not been called on
\* a pool.
C11_PoolCreatedLazily ==
    /\ executor = None /\ pools = <<>>
    /\ [][/\ NoPoolFromSyncOrShutdown
          /\ PoolAppears => \E c \in Callers : LazyCreateStep(c)]_vars
    /\ []((tasks # <<>> /\ \A p \in PoolIds : pools[p].shutdown = {}) => executor # None)

\* C11 (as amended): the pool is created by the first use of the executor
\* property, which is a submission or a read of the public property; a
\* read that has returned while shutdown was never called on a pool gave a
\* pool; the rest as stated.
C11_PoolCreatedOnFirstUse ==
    /\ executor = None /\ pools = <<>>
    /\ [][/\ NoPoolFromSyncOrShutdown
          /\ PoolAppears => \E c \in Callers : PropertyCreateStep(c)]_vars
    /\ []((\A p \in PoolIds : pools[p].shutdown = {}) =>
            /\ tasks # <<>> => executor # None
            /\ \A c \in Callers : HasReturned(c, "executor") =>
                    (callers[c].out = Returned(TRUE) /\ executor # None))

\* A read of the executor property has returned the pool it created and
\* nothing has been submitted.
C11_Witness ==
    \E c \in Callers :
        /\ HasReturned(c, "executor") /\ callers[c].out = Returned(TRUE)
        /\ tasks = <<>> /\ Len(pools) = 1 /\ executor = 1
        /\ \A d \in Callers \ {c} : callers[d].pc = "idle"

(* C12 *)

\* C12: when more tasks than the pool has workers have been submitted and
\* the backend answered every one of them with a success status, every
\* completed handle gives True and each task has posted exactly once.
C12_MoreTasksThanWorkers ==
    (Len(tasks) > max_workers /\ \A t \in TaskIds : done(t) /\ Success(tasks[t].resp)) =>
        \A t \in TaskIds : result(t) = Returned(TRUE) /\ tasks[t].posts = 1

(* C13 *)

\* Thread c, back from shutdown, enters send_simple_async / send_async.
SubmitAfterShutdown(c) ==
    /\ HasReturned(c, "shutdown") /\ ~callers[c].out.raised
    /\ callers'[c].op = "submit"

\* C13: for one calling thread: when shutdown(wait) has returned the pool
\* reference is None; the next send_simple_async / send_async goes through
\* the creating branch of the executor property, which makes a new pool
\* that accepts work, with max_workers as constructed; no submission
\* raises; and every task submitted to a re-created pool completes after
\* performing its send.
C13_ResubmitAfterShutdown ==
    /\ [](\A c \in Callers :
            /\ (HasReturned(c, "shutdown") /\ ~callers[c].out.raised) => executor = None
            /\ HasReturned(c, "submit") => ~callers[c].out.raised)
    /\ [][/\ max_workers' = max_workers
          /\ \A c \in Callers :
                /\ SubmitAfterShutdown(c) => callers'[c].pc = "executor_create"
                /\ LazyCreateStep(c) =>
                      /\ executor' \notin PoolIds
                      /\ pools'[executor'] = NewPool]_vars
    /\ <>[](\A t \in TaskIds : tasks[t].pool > 1 => Completed(t))

\* A task submitted after shutdown has completed on the second pool.
C13_Witness ==
    /\ Len(pools) = 2 /\ pools[1].shutdown # {}
    /\ \E t \in TaskIds : tasks[t].pool = 2 /\ Completed(t)

(* C14 *)

\* Task t waits in the queue of its pool.
Queued(t) ==
    \E i \in 1..Len(pools[tasks[t].pool].queue) : pools[tasks[t].pool].queue[i] = t

\* C14: done() is false exactly while the task waits in the queue or a
\* worker is running it, true once the worker has finished with it, and
\* never goes back from true to false.
C14_DoneIffWorkerFinished ==
    /\ [](\A t \in TaskIds : done(t) <=> (~Queued(t) /\ t \notin Running(tasks[t].pool)))
    /\ [][\A t \in TaskIds : done(t) => done(t)']_vars

\* One handle is done while the task of another is still with a worker.
C14_Witness ==
    \E t, u \in TaskIds : done(t) /\ ~done(u) /\ u \in Running(tasks[u].pool)

(* C15 *)

\* A step in which result(timeout) on thread c raises TimeoutError.
TimeoutStep(c) ==
    /\ callers'[c] # callers[c]
    /\ callers'[c].pc = "returned" /\ callers'[c].op = "result"
    /\ callers'[c].out = Raised(TimeoutError)

\* Some thread's result(timeout) on handle t has timed out.
TimedOutOn(t) ==
    \E c \in Callers :
        HasReturned(c, "result") /\ callers[c].handle = t /\ callers[c].out = Raised(TimeoutError)

\* Task t has completed after its one send and, if it has a callback, after
\* invoking it.
CompletedWithCallback(t) ==
    Completed(t) /\ (tasks[t].cb => Len(tasks[t].calls) >= 1)

\* C15: result() on a handle that is not done can only time out, whatever
\* fail_silently is; the step in which it raises TimeoutError changes no
\* task, no pool queue, not the pool reference and not the number of
\* backend calls; and the task the wait was on still performs its send,
\* invokes its callback and completes.
C15_TimeoutLeavesTaskAlone ==
    /\ [][\A c \in Callers :
            /\ (callers'[c] # callers[c] /\ callers'[c].pc = "returned"
                   /\ callers'[c].op = "result" /\ ~done(callers'[c].handle)) =>
                  callers'[c].out = Raised(TimeoutError)
            /\ TimeoutStep(c) =>
                  /\ tasks' = tasks /\ pools' = pools
                  /\ executor' = executor /\ backend_calls' = backend_calls]_vars
    /\ <>[](\A t \in TaskIds : TimedOutOn(t) => CompletedWithCallback(t))

\* A wait on a task with a callback timed out, with fail_silently set, and
\* the task has since completed.
C15_Witness ==
    \E t \in TaskIds :
        TimedOutOn(t) /\ tasks[t].cb /\ CompletedWithCallback(t) /\ fail_silently

(* C16 *)

\* Thread c holds what result() on a completed handle gave.
HoldsResult(c) ==
    HasReturned(c, "result") /\ callers[c].out # Raised(TimeoutError)

\* C16: a handle that is done stays done and its outcome, like the rest of
\* its task, never changes again; so whatever result() gave a thread after
\* completion is what result() still gives, and two threads that asked the
\* same handle hold the same value or the same error.
C16_OutcomeWrittenOnce ==
    /\ [][\A t \in TaskIds : done(t) => tasks'[t] = tasks[t]]_vars
    /\ [](\A c \in Callers : HoldsResult(c) =>
            /\ done(callers[c].handle)
            /\ callers[c].out = result(callers[c].handle))
    /\ [](\A c, d \in Callers :
            (HoldsResult(c) /\ HoldsResult(d) /\ callers[c].handle = callers[d].handle) =>
                callers[c].out = callers[d].out)

\* Two threads hold the outcome of the same completed handle.
C16_Witness ==
    \E c, d \in Callers :
        /\ c # d /\ HoldsResult(c) /\ HoldsResult(d)
        /\ callers[c].handle = callers[d].handle

(* C17 *)

\* The send of task t raised: an API error, a transport error that is not
\* silenced, or params json.dumps refuses.
SendFailed(t) == t \in TaskIds /\ tasks[t].sent.raised

\* A step of the worker that runs task t.
WorkerStepOf(t) == tasks[t].pc # "queued" /\ tasks'[t] # tasks[t]

\* A step leaves the queue, the threads and the shutdown state of every pool
\* as they are.
PoolsKept ==
    /\ Len(pools') = Len(pools)
    /\ \A p \in PoolIds :
          /\ pools'[p].queue = pools[p].queue
          /\ pools'[p].threads = pools[p].threads
          /\ pools'[p].shutdown = pools[p].shutdown

\* C17: a worker's step on a task, failing or not, changes nothing but that
\* task: not the pool reference, no pool's queue, threads or shutdown
\* state, no other task; a task whose send
\* failed no longer occupies a worker once it is done; while shutdown has
\* not been called no submission is refused, whatever sends have failed;
\* and once the send of one task has failed every other submitted task
\* still performs its send and completes.
C17_FailureConfinedToItsTask ==
    /\ [](\A t \in TaskIds : (SendFailed(t) /\ done(t)) => t \notin Running(tasks[t].pool))
    /\ [][\A t \in TaskIds : WorkerStepOf(t) =>
            /\ executor' = executor /\ PoolsKept /\ max_workers' = max_workers
            /\ \A u \in TaskIds \ {t} : tasks'[u] = tasks[u]]_vars
    /\ []((\A p \in PoolIds : pools[p].shutdown = {}) =>
            \A c \in Callers : HasReturned(c, "submit") => ~callers[c].out.raised)
    /\ <>[](\A t, u \in TaskIds : (t # u /\ SendFailed(t)) => Completed(u))

\* On a pool of one worker the first task's send failed and the task queued
\* behind it, submitted after the failure, has completed.
C17_Witness ==
    /\ max_workers = 1 /\ Len(tasks) = 2
    /\ tasks[1].pool = tasks[2].pool
    /\ SendFailed(1) /\ done(1) /\ Completed(2)

(* C18 *)

\* C18: with fail_silently true, a synchronous send that meets an error (a
\* transport failure or a non-success status) raises nothing and returns
\* False.
C18_FailSilentlyReturnsFalse ==
    fail_silently =>
        \A c \in Callers :
            (callers[c].pc = "returned" /\ callers[c].op \in SyncOps
               /\ (TransportFailure(callers[c].resp) \/ NonSuccess(callers[c].resp))) =>
                callers[c].out = Returned(FALSE)

(* C19 *)

\* A step of thread c inside send_simple_async / send_async.
SubmitterStep(c) ==
    /\ callers'[c] # callers[c]
    /\ callers'[c].op = "submit"
    /\ \/ callers[c].pc \in {"executor_create", "executor_return", "submit", "submit_return"}
       \/ callers'[c].pc \in {"executor_create", "executor_return"}

\* The step in which send_simple_async / send_async returns its handle.
HandleReturnStep(c) == callers[c].pc = "submit_return" /\ callers'[c].pc = "returned"

\* Nothing of the task's closure has run.
Untouched(task) == task.pc = "queued" /\ task.posts = 0 /\ task.calls = <<>>

\* A step of the submitting thread makes no backend call, invokes no
\* callback and changes no task; at most it adds one task, of which nothing
\* has run, to a pool's queue.
OnlyEnqueues(c) ==
    /\ backend_calls' = backend_calls
    /\ \A t \in TaskIds : tasks'[t] = tasks[t]
    /\ Len(tasks') \in {Len(tasks), Len(tasks) + 1}
    /\ Len(tasks') > Len(tasks) =>
          /\ Untouched(tasks'[Len(tasks')])
          /\ pools'[callers[c].ref].queue = Append(pools[callers[c].ref].queue, Len(tasks'))

\* The backend call and the callback invocations of a task happen in steps
\* in which a pool worker is running it and no calling thread moves.
OnWorker(t) ==
    (tasks'[t].posts # tasks[t].posts \/ tasks'[t].calls # tasks[t].calls) =>
        t \in Running(tasks[t].pool) /\ callers' = callers

\* C19 (as amended): the submitting thread only enqueues; the backend call
\* and the callback of every task run on a pool worker.
C19_SubmitOnlyEnqueues ==
    [][/\ \A c \in Callers : SubmitterStep(c) => OnlyEnqueues(c)
       /\ \A t \in TaskIds : OnWorker(t)]_vars

\* C19 (as stated): besides, the handle is still pending at the moment
\* send_simple_async / send_async returns it.
C19_ReturnsPendingHandle ==
    [][/\ \A c \in Callers : SubmitterStep(c) => OnlyEnqueues(c)
       /\ \A t \in TaskIds : OnWorker(t)
       /\ \A c \in Callers : HandleReturnStep(c) => ~done(callers[c].handle)]_vars

\* A worker has run a task with a callback to completion while the call
\* that submitted it is still on its way back to the caller.
C19_Witness ==
    \E c \in Callers :
        /\ callers[c].pc = "submit_return"
        /\ tasks[callers[c].handle].cb /\ CompletedWithCallback(callers[c].handle)

(* C20 *)

\* The step in which thread c enters send_simple / send, and the step in
\* which its post is answered.
SyncSendStep(c) == Ready(c) /\ callers'[c] # callers[c] /\ callers'[c].op \in SyncOps
SyncAnswerStep(c) == callers[c].pc = "post" /\ callers'[c].pc = "returned"

\* Every backend call is the post of one send: of send_simple / send
\* entered on a calling thread, or of the send a worker has started for a
\* task.
PostsOnlyFromSends ==
    backend_calls' # backend_calls =>
        /\ backend_calls' = backend_calls + 1
        /\ \/ /\ calls_left' = calls_left - 1 /\ tasks' = tasks
              /\ \E c \in Callers : Ready(c) /\ callers'[c].pc = "post"
           \/ /\ calls_left' = calls_left /\ callers' = callers
              /\ \E t \in TaskIds :
                    tasks[t].pc = "send" /\ tasks'[t].pc \in InPost /\ tasks'[t].posts = 1

\* C20 (as stated): a synchronous send makes exactly one backend call, when
\* it is entered, and none when its post has been answered, whatever the
\* backend does and whatever fail_silently is; a task has made no backend
\* call until its worker runs the send and exactly one from then on; and
\* every backend call is the post of one send.
C20_OnePostPerSend ==
    /\ [][/\ \A c \in Callers :
                /\ SyncSendStep(c) => backend_calls' = backend_calls + 1
                /\ SyncAnswerStep(c) => backend_calls' = backend_calls
          /\ PostsOnlyFromSends]_vars
    /\ [](\A t \in TaskIds :
            tasks[t].posts = IF tasks[t].pc \in {"queued", "send"} THEN 0 ELSE 1)

\* The send on thread c, or of task t, left with what json.dumps raised.
SyncRefused(c) == callers[c].op \in SyncOps /\ JsonRefusal(callers[c].out)
TaskRefused(t) == JsonRefusal(tasks[t].sent)

\* C20 (as amended): a send whose params json.dumps does not serialise
\* raises the error of json.dumps before the post and makes no backend
\* call; every other send makes exactly one, when it enters the post, and
\* none when the post has been answered, whatever the backend does and
\* whatever fail_silently is; and every backend call is the post of one
\* send.
C20_OnePostUnlessRefused ==
    /\ [][/\ \A c \in Callers :
                /\ SyncSendStep(c) =>
                      backend_calls' = backend_calls + (IF SyncRefused(c)' THEN 0 ELSE 1)
                /\ SyncAnswerStep(c) => backend_calls' = backend_calls
          /\ PostsOnlyFromSends]_vars
    /\ [](\A t \in TaskIds :
            tasks[t].posts =
                IF tasks[t].pc \in {"queued", "send"} \/ TaskRefused(t) THEN 0 ELSE 1)

\* A synchronous send was refused by json.dumps and a task's send was
\* answered with a non-success status, with fail_silently set: two sends,
\* one backend call.
C20_Witness ==
    /\ fail_silently /\ backend_calls = 1
    /\ \E c \in Callers : callers[c].pc = "returned" /\ SyncRefused(c)
    /\ \E t \in TaskIds : done(t) /\ NonSuccess(tasks[t].resp) /\ tasks[t].posts = 1

(* C21 *)

\* C21: of two tasks submitted to the same pool, the later one is never
\* taken by a worker while the earlier one still waits in the queue (task
\* ids follow the order of submission).
C21_QueueIsFifo ==
    \A t, u \in TaskIds :
        (t < u /\ tasks[t].pool = tasks[u].pool /\ tasks[u].pc # "queued") =>
            tasks[t].pc # "queued"

\* Both tasks of a pool were taken in order, and the one submitted later
\* has completed before the earlier one.
C21_Witness ==
    \E t, u \in TaskIds :
        /\ t < u /\ tasks[t].pool = tasks[u].pool
        /\ done(u) /\ ~done(t) /\ t \in Running(tasks[t].pool)

(* C22 *)

\* __del__ on thread c has returned.
Disposed(c) == HasReturned(c, "__del__") /\ ~callers[c].out.raised

\* The step in which __del__ finds no pool.
DelWithoutPool(c) ==
    /\ Ready(c) /\ executor = None
    /\ callers'[c].op = "__del__" /\ callers'[c] # callers[c]

\* C22: __del__ never waits for the pool's workers; when it has returned
\* the pool reference is None; on a dispatcher without a pool it returns
\* at once and changes nothing; and every task outstanding when it
\* returned still performs its send and completes.
C22_DelIsNonBlockingShutdown ==
    /\ [](\A c \in Callers :
            /\ callers[c].op = "__del__" => (~callers[c].wait /\ callers[c].pc # "shutdown_wait")
            /\ HasReturned(c, "__del__") => (~callers[c].out.raised /\ executor = None))
    /\ [][\A c \in Callers : DelWithoutPool(c) =>
            /\ callers'[c].pc = "returned"
            /\ executor' = None /\ pools' = pools /\ tasks' = tasks
            /\ backend_calls' = backend_calls]_vars
    /\ <>[]((\E c \in Callers : Disposed(c)) => \A t \in TaskIds : Completed(t))

\* __del__ has returned while a task submitted before it is still queued or
\* with a worker.
C22_Witness ==
    \E c \in Callers :
        /\ Disposed(c) /\ executor = None
        /\ \E t \in 1..callers[c].before : ~done(t) /\ pools[tasks[t].pool].shutdown = {FALSE}

(* C23 *)

\* The step in which making the pool fails in thread c's call, and the step
\* in which starting a worker thread of the pool fails in its submission.
CreateFailStep(c) ==
    /\ callers[c].pc = "executor_create"
    /\ callers'[c].pc = "returned" /\ callers'[c].out = Raised(CreationError)
ThreadFailStep(c) ==
    /\ callers[c].pc = "submit"
    /\ callers'[c].pc = "returned" /\ callers'[c].out = Raised(ThreadStartError)

\* No thread has made a pool so far.
NoPoolSoFar == pools = <<>>

\* The failing call returns no handle, makes no backend call, queues
\* nothing, makes no pool and does not touch the pool reference, which is
\* still None when no pool has been made so far.
LeavesNoTrace(c) ==
    /\ callers'[c].handle = None
    /\ backend_calls' = backend_calls
    /\ tasks' = tasks /\ pools' = pools
    /\ executor' = executor
    /\ NoPoolSoFar => executor' = None

\* A thread entering send_simple_async / send_async on a dispatcher without
\* a pool goes to make one.
CreatesWhenNone(c) ==
    (Ready(c) /\ executor = None /\ callers'[c].pc \in {"executor_create", "executor_return"}) =>
        callers'[c].pc = "executor_create"

\* C23 (as stated): whichever way creating the pool fails during a
\* submission, the call raises and leaves no trace, no backend call is ever
\* made for a request whose submission raised, and a later submission
\* makes the pool again.
C23_FailedCreationLeavesNoTrace ==
    /\ [][\A c \in Callers :
            /\ (CreateFailStep(c) \/ ThreadFailStep(c)) => LeavesNoTrace(c)
            /\ CreatesWhenNone(c)]_vars
    /\ [](\A t \in TaskIds : tasks[t].orphan => tasks[t].posts = 0)

\* C23 (as amended): that holds when ThreadPoolExecutor(...) itself raises;
\* when the pool is made but a worker thread cannot be started, the call
\* raises and returns no handle and makes no backend call itself, but the
\* pool stays assigned and the work item stays in its queue.
C23_FailedConstructionLeavesNoTrace ==
    [][\A c \in Callers :
          /\ CreateFailStep(c) => LeavesNoTrace(c)
          /\ ThreadFailStep(c) =>
                /\ callers'[c].handle = None
                /\ backend_calls' = backend_calls
                /\ executor' = executor
                /\ Len(tasks') = Len(tasks) + 1
                /\ tasks'[Len(tasks')].orphan /\ Untouched(tasks'[Len(tasks')])
                /\ pools'[callers[c].ref].queue = Append(pools[callers[c].ref].queue, Len(tasks'))
          /\ CreatesWhenNone(c)]_vars

\* One submission failed to make the pool; another made it and its task has
\* completed.
C23_Witness ==
    \E c, d \in Callers :
        /\ HasReturned(c, "submit") /\ callers[c].out = Raised(CreationError)
        /\ HasReturned(d, "submit") /\ ~callers[d].out.raised
        /\ Len(pools) = 1 /\ Completed(callers[d].handle)

(* C24 *)

\* The tasks whose send a worker is executing.
Sending == {t \in TaskIds : tasks[t].pc \in {"send"} \cup InPost}

\* C24: at no time are more than max_workers sends of the dispatcher's
\* tasks executing.
C24_AtMostMaxWorkersSends == Cardinality(Sending) <= max_workers

(* C25 *)

\* C25: a send_simple_async / send_async call never raises, however it is
\* interleaved with shutdown on another thread: it returns the handle of a
\* task it has queued.
C25_SubmitNeverRaises ==
    \A c \in Callers : HasReturned(c, "submit") =>
        ~callers[c].out.raised /\ callers[c].handle \in TaskIds

(* C26 *)

\* C26: whatever submissions and shutdowns the threads have made, every
\* pool ever created is the one the dispatcher refers to, or has had
\* shutdown called on it.
C26_NoOrphanedPool ==
    (\A c \in Callers : callers[c].op \in {"none", "submit", "shutdown"}) =>
        \A p \in PoolIds : p = executor \/ pools[p].shutdown # {}

(* C27 *)

\* C27: shutdown never raises, whether another shutdown runs at the same
\* time or has returned before.
C27_ShutdownNeverRaises ==
    \A c \in Callers : HasReturned(c, "shutdown") => ~callers[c].out.raised

(* C28 *)

\* C28: what a completed handle gives is what the task's send gave: True if
\* the send returned True, the send's error if it raised, whatever the
\* callback did.
C28_OutcomeIsSendOutcome ==
    \A t \in TaskIds : done(t) => result(t) = tasks[t].sent

====
